---- MODULE Spec2Model ----
(***************************************************************************)
(* State-machine model of kleonidu/math_coach.                             *)
(*                                                                         *)
(*   Spec       the tutoring bot (src/bot.py): the in-process session map, *)
(*              one action per update handler.  Updates are handled one at *)
(*              a time, each handler running to completion.                *)
(*   SpecAgent  the CI agent (src/ai_agent/agent.py): main, run_stub_plan  *)
(*              and save_report_and_create_pr, one action per loop         *)
(*              iteration and per REST step.                               *)
(***************************************************************************)
EXTENDS Integers, Sequences, FiniteSets, TLC

\* ------------------------------------------------------------------ bounds
MaxTasks == 2        \* cap on stats["total_tasks"]
MaxCompleted == 2    \* cap on stats["completed_tasks"]
MaxConv == 4         \* cap on len(session.conversation)
MaxHints == 1        \* cap on stats["total_hints"]
MaxSteps == 3        \* cap on the number of steps of a plan
MaxText == 4         \* cap on the length of a recognition reply text
MaxUpdates == 3      \* cap on the text updates handled concurrently
MaxExamHints == 3    \* cap on stats["total_hints"] in the exam-mode runs
MaxHistory == 6      \* cap on completed tasks in the history runs
MaxUserTasks == 1    \* cap on stats["total_tasks"] in the two-user runs
MaxExamConv == 8     \* cap on len(session.conversation) in the exam-mode runs

\* ------------------------------------------------------- values and inputs
None == "None"         \* Python None
Absent == "ABSENT"     \* an attribute removed with delattr

Users == {"u1"}                    \* update.effective_user.id
Texts == {"a"}                \* update.message.text
Photos == {"p"}                    \* text recognised on a photo
Difficulties == {"easy"}   \* suffix of a "difficulty_" callback

\* Index of the awaited Telegram call of a handler that raises (0: none).
FailPoints == 0..6

\* ------------------------------------------------------------ UserSession
NewStats ==
    [total_tasks |-> 0, completed_tasks |-> 0, average_score |-> <<0, 1>>,
     total_hints |-> 0, tasks_history |-> <<>>, total_memes_earned |-> 0]

\* UserSession.__init__.  average_score is kept as an exact fraction
\* <<numerator, denominator>> in lowest terms.
UserSession ==
    [state |-> "WAITING_TASK", current_task |-> None, conversation |-> <<>>,
     stats |-> NewStats, difficulty |-> "medium", exam_mode |-> FALSE,
     task_start_time |-> None, temp_task |-> None, meme_enabled |-> TRUE]

SessionState ==
    {"WAITING_TASK", "SOLVING", "FINAL_ANSWER", "CHECKING", "COMPLETED",
     "EXAM_MODE"}

\* Mutant: get_session builds a new session on every call.
get_session_replacing(sessions, user_id) ==
    [u \in (DOMAIN sessions) \cup {user_id} |->
        IF u = user_id THEN UserSession ELSE sessions[u]]

\* get_session on the session map: creates the session on first use.
get_session(sessions, user_id) ==
    IF user_id \in DOMAIN sessions
    THEN sessions
    ELSE [u \in (DOMAIN sessions) \cup {user_id} |->
            IF u = user_id THEN UserSession ELSE sessions[u]]

\* ------------------------------------------------------ conversation turns
Turn(role, kind, text) == [role |-> role, kind |-> kind, text |-> text]
\* f"Ученик хочет решить задачу: {task}\n\nНачни с проверки ..."
FramingTurn(task) == Turn("user", "framing", task)
UserTurn(text) == Turn("user", "text", text)
HintTurn == Turn("user", "hint", None)

\* The text get_ai_response returns: the completion text, or one of the two
\* canned texts when there is no client or call_claude raises.
ai_reply(s, cl, call_ok) ==
    IF cl /\ call_ok THEN "llm"
    ELSE IF s.state = "SOLVING" THEN "fallback_solving"
    ELSE "fallback_other"

\* get_ai_response: whatever the reply is, it is appended as one assistant
\* turn.  The text of an assistant turn is not kept in the model's
\* conversation; ai_reply gives it.
get_ai_response(s, cl, call_ok) ==
    [s EXCEPT !.conversation = Append(@, Turn("assistant", "reply", None))]

\* The try block of get_ai_response: the exception it raises, or None.
ai_try_body(cl, call_ok) ==
    IF ~cl THEN "RuntimeError"
    ELSE IF ~call_ok THEN "APIError"
    ELSE None

\* Mutant: the except clause catches RuntimeError only.
get_ai_response_narrow_except(s, cl, call_ok) ==
    LET exc == ai_try_body(cl, call_ok)
        reply == IF exc = None THEN "llm"
                 ELSE IF s.state = "SOLVING" THEN "fallback_solving"
                 ELSE "fallback_other"
    IN IF exc = "APIError"
       THEN [raised |-> exc, reply |-> "none", session |-> s]
       ELSE [raised |-> None, reply |-> reply,
             session |-> [s EXCEPT !.conversation =
                             Append(@, Turn("assistant", "reply", None))]]

\* One call of get_ai_response, lines 818-841: the exception leaving it
\* (None: it returns), the text returned and the session afterwards.
get_ai_response_call(s, cl, call_ok) ==
    LET exc == ai_try_body(cl, call_ok)
        reply == IF exc = None THEN "llm"
                 ELSE IF s.state = "SOLVING" THEN "fallback_solving"
                 ELSE "fallback_other"
    IN [raised |-> None, reply |-> reply,
        session |-> [s EXCEPT !.conversation =
                        Append(@, Turn("assistant", "reply", None))]]

\* ------------------------------------------------------------ arithmetic
Abs(n) == IF n < 0 THEN -n ELSE n

RECURSIVE GCD(_, _)
GCD(a, b) == IF b = 0 THEN a ELSE GCD(b, a % b)

Reduce(num, den) ==
    LET g == GCD(Abs(num), den) IN <<num \div g, den \div g>>

\* Mutant: the old average weighted by total instead of total - 1.
running_average_overweighted(old_avg, total, new_score) ==
    Reduce(old_avg[1] * total + new_score * old_avg[2], old_avg[2] * total)

\* (old_avg * (total - 1) + new_score) / total, true division.
running_average(old_avg, total, new_score) ==
    Reduce(old_avg[1] * (total - 1) + new_score * old_avg[2],
           old_avg[2] * total)

\* ------------------------------------------------------- verify_solution
\* A reply of the completion call made by verify_solution.
\*   kind "api_error"        call_claude raises
\*        "not_json"         json.loads raises
\*        "json_non_object"  valid JSON that is no object (data.get raises)
\*        "object"           a JSON object; score is the "score" member:
\*                           "missing", "int" (value v), "text" (a string
\*                           int() rejects) or "null"; lists_ok is FALSE
\*                           when "strengths"/"mistakes" cannot be iterated
VReply(kind, correct, score_t, score_v, feedback, lists_ok) ==
    [kind |-> kind, correct |-> correct, score_t |-> score_t,
     score_v |-> score_v, feedback |-> feedback, lists_ok |-> lists_ok]

ScoreValues == {0, 50, 85, 100, 150}

VerifyReplies ==
    { VReply("api_error", "missing", "missing", 0, "missing", TRUE),
      VReply("not_json", "missing", "missing", 0, "missing", TRUE),
      VReply("json_non_object", "missing", "missing", 0, "missing", TRUE) }
    \cup
    { VReply("object", c, t, IF t = "int" THEN v ELSE 0, f, l) :
        c \in {"missing", "true", "false"},
        t \in {"missing", "int", "text", "null"},
        v \in ScoreValues,
        f \in {"missing", "", "text"},
        l \in BOOLEAN }

\* The replies the bot's runs draw from.
BotVerifyReplies ==
    { VReply("api_error", "missing", "missing", 0, "missing", TRUE),
      VReply("object", "true", "int", 85, "text", TRUE),
      VReply("object", "true", "int", 85, "text", FALSE) }

\* The result dict of verify_solution; raised is the exception that leaves
\* the function (None when it returns).
VResult(correct, score, feedback, lists_ok) ==
    [raised |-> None, correct |-> correct, score |-> score,
     feedback |-> feedback, lists_ok |-> lists_ok]

VRaise(exc) ==
    [raised |-> exc, correct |-> FALSE, score |-> 0, feedback |-> "",
     lists_ok |-> TRUE]

\* The fixed result returned after the try block.
VerifyFallback == VResult(FALSE, 50, "offline", TRUE)

\* The body of the try block: call_claude, json.loads, the dict built from
\* data.get(...).  Either the dict, or the exception the body raises.
verify_try_body(reply) ==
    CASE reply.kind = "api_error" -> VRaise("APIError")
      [] reply.kind = "not_json" -> VRaise("JSONDecodeError")
      [] reply.kind = "json_non_object" -> VRaise("AttributeError")
      [] OTHER ->
            CASE reply.score_t = "text" -> VRaise("ValueError")
              [] reply.score_t = "null" -> VRaise("TypeError")
              [] OTHER ->
                   VResult(reply.correct = "true",
                           IF reply.score_t = "int" THEN reply.score_v ELSE 0,
                           IF reply.feedback = "missing" THEN "default"
                           ELSE reply.feedback,
                           reply.lists_ok)

\* Mutant: the except clause catches json.JSONDecodeError only.
verify_solution_narrow_except(cl, reply) ==
    IF cl
    THEN LET body == verify_try_body(reply)
         IN IF body.raised = "JSONDecodeError" THEN VerifyFallback ELSE body
    ELSE VerifyFallback

\* verify_solution: `except Exception: pass` falls through to the fallback.
verify_solution(cl, reply) ==
    IF cl
    THEN LET body == verify_try_body(reply)
         IN IF body.raised # None THEN VerifyFallback ELSE body
    ELSE VerifyFallback

\* ---------------------------------------------------- generate_meme_text
MemeReplies == {"api_error", "text", "empty"}

\* Returns the completion text (which may be empty) or a canned text.
generate_meme_text(cl, reply) ==
    IF cl /\ reply # "api_error" THEN reply ELSE "fallback"

\* -------------------------------------------- recognize_math_from_image
\* A reply of the recognition call: "api_error", or the reply text after
\* strip(): "sentinel" (contains НЕТ ЗАДАЧИ in some case), "" or a task.
RecogReplies == {"api_error", "sentinel", ""} \cup Photos

recognize_math_from_image(cl, reply) ==
    IF ~cl THEN None
    ELSE IF reply = "api_error" THEN None
    ELSE IF reply = "sentinel" THEN None
    ELSE reply

\* The same function on reply texts as character sequences.  Chars has a
\* blank, a letter in both cases and other letters; NO_TASK stands for the
\* sentinel НЕТ ЗАДАЧИ (two upper-case words separated by a blank).
Chars == {" ", "n", "N", "Z", "x"}
NO_TASK == <<"N", " ", "Z">>

RECURSIVE TextsUpTo(_)
TextsUpTo(n) ==
    IF n = 0 THEN {<<>>}
    ELSE LET shorter == TextsUpTo(n - 1)
         IN shorter \cup {Append(t, c) : t \in {u \in shorter : Len(u) = n - 1},
                                          c \in Chars}

\* str.upper(), character by character.
upper_char(c) == CASE c = "n" -> "N" [] c = "x" -> "X" [] OTHER -> c
upper(text) == [j \in 1..Len(text) |-> upper_char(text[j])]

\* str.strip(): leading and trailing blanks removed.
RECURSIVE lstrip(_)
lstrip(text) ==
    IF text # <<>> /\ Head(text) = " " THEN lstrip(Tail(text)) ELSE text
RECURSIVE rstrip(_)
rstrip(text) ==
    IF text # <<>> /\ text[Len(text)] = " "
    THEN rstrip(SubSeq(text, 1, Len(text) - 1)) ELSE text
strip(text) == rstrip(lstrip(text))

\* `sub in text`
contains(text, sub) ==
    \E j \in 0..(Len(text) - Len(sub)) : SubSeq(text, j + 1, j + Len(sub)) = sub

\* A reply of the recognition call: the call raises ("api_error"), the
\* message has no content block ("no_content"), or content[0].text is text.
RReply(kind, text) == [kind |-> kind, text |-> text]
RecogCallReplies ==
    {RReply("api_error", <<>>), RReply("no_content", <<>>)}
        \cup {RReply("text", t) : t \in TextsUpTo(MaxText)}

\* What the recognizer returns: None (null) or a text; raised is the
\* exception leaving the function.
RResult(raised, null, text) == [raised |-> raised, null |-> null, text |-> text]
RNone == RResult(None, TRUE, <<>>)

\* Mutant: the sentinel is looked for in the text as it is, without upper().
recognize_text_case_sensitive(cl, reply) ==
    IF ~cl THEN RNone
    ELSE IF reply.kind # "text" THEN RNone
    ELSE LET recognized_text == strip(reply.text)
         IN IF contains(recognized_text, NO_TASK) THEN RNone
            ELSE RResult(None, FALSE, recognized_text)

\* recognize_math_from_image, lines 506-561, on character sequences.
recognize_text(cl, reply) ==
    IF ~cl THEN RNone
    ELSE IF reply.kind # "text" THEN RNone
    ELSE LET recognized_text == strip(reply.text)
         IN IF contains(upper(recognized_text), NO_TASK) THEN RNone
            ELSE RResult(None, FALSE, recognized_text)

\* --------------------------------------------------------------- handlers
\* What a handler leaves behind: the session, whether an exception was
\* raised inside it, and the verify_solution call it made (if any).
NoReply == VReply("none", "missing", "missing", 0, "missing", TRUE)

Result(s, raised, verified, reply, verification) ==
    [session |-> s, raised |-> raised, verified |-> verified,
     verify_reply |-> reply, verification |-> verification]

Returned(s) == Result(s, FALSE, FALSE, NoReply, VerifyFallback)
Raised(s) == Result(s, TRUE, FALSE, NoReply, VerifyFallback)

\* Mutant: the task block without `session.conversation = []`.
start_task_keeping_conversation(s, task_text) ==
    [s EXCEPT !.current_task = task_text,
              !.conversation = Append(@, FramingTurn(task_text)),
              !.state = "SOLVING",
              !.task_start_time = "set",
              !.stats.total_tasks = @ + 1]

\* The block that starts a task (button_handler 305-314, handle_message
\* 570-579): the conversation is replaced by the task-framing turn.
start_task(s, task_text) ==
    [s EXCEPT !.current_task = task_text,
              !.conversation = <<FramingTurn(task_text)>>,
              !.state = "SOLVING",
              !.task_start_time = "set",
              !.stats.total_tasks = @ + 1]

\* handle_message, state WAITING_TASK.  fail = 1: send_action raises.
handle_message_waiting(s, cl, msg, fail, call_ok) ==
    LET s1 == start_task(s, msg)
    IN IF fail = 1 THEN Raised(s1)
       ELSE IF fail = 2 THEN Raised(get_ai_response(s1, cl, call_ok))
       ELSE Returned(get_ai_response(s1, cl, call_ok))

\* handle_message, state SOLVING.
handle_message_solving(s, cl, msg, fail, call_ok) ==
    LET s1 == [s EXCEPT !.conversation = Append(@, UserTurn(msg))]
    IN IF fail = 1 THEN Raised(s1)
       ELSE IF fail = 2 THEN Raised(get_ai_response(s1, cl, call_ok))
       ELSE Returned(get_ai_response(s1, cl, call_ok))

\* handle_message, state FINAL_ANSWER (lines 617-693).  Awaited Telegram
\* calls, in order: 1 send_action, 2 reply_text, 3 send_action,
\* 4 reply_text(result), 5 send_action, 6 reply_text(meme).
handle_message_final(s, cl, msg, fail, vreply, mreply) ==
    LET v == verify_solution(cl, vreply)
        total == s.stats.completed_tasks + 1
        s1 == [s EXCEPT !.stats.completed_tasks = total,
                        !.stats.average_score =
                            running_average(@, total, v.score)]
        s2 == [s1 EXCEPT !.stats.tasks_history =
                            Append(@, [score |-> v.score])]
        meme_text == generate_meme_text(cl, mreply)
        s3 == [s2 EXCEPT !.state = "COMPLETED"]
        s4 == IF s.meme_enabled
              THEN [s3 EXCEPT !.stats.total_memes_earned = @ + 1]
              ELSE s3
        s5 == [s4 EXCEPT !.current_task = None,
                         !.conversation = <<>>,
                         !.task_start_time = None,
                         !.state = "WAITING_TASK"]
        Exc(t) == Result(t, TRUE, TRUE, vreply, v)
    IN IF fail \in {1, 2} THEN Raised(s)
       ELSE IF v.raised # None THEN Exc(s)
       ELSE IF s.task_start_time = None THEN Exc(s)     \* line 623
       ELSE IF s.current_task = None THEN Exc(s1)       \* line 635
       ELSE IF fail = 3 THEN Exc(s2)
       ELSE IF ~v.lists_ok THEN Exc(s2)                 \* lines 655-664
       ELSE IF fail = 4 THEN Exc(s3)
       ELSE IF s.meme_enabled /\ fail = 5 THEN Exc(s4)
       ELSE IF s.meme_enabled /\ meme_text # "empty" /\ fail = 6 THEN Exc(s4)
       ELSE Result(s5, FALSE, TRUE, vreply, v)

\* What one run of the FINAL_ANSWER branch sends besides the session
\* updates: whether generate_meme_text (line 639) makes its completion call
\* (it does when a client exists) and whether the meme message of line 687
\* is sent.  Same inputs and fail points as handle_message_final.
handle_message_final_calls(s, cl, fail, vreply, mreply) ==
    LET v == verify_solution(cl, vreply)
        at_639 == /\ fail \notin {1, 2, 3}
                  /\ v.raised = None
                  /\ s.task_start_time # None
                  /\ s.current_task # None
        at_679 == at_639 /\ v.lists_ok /\ fail # 4
    IN [meme_call |-> at_639 /\ cl,
        meme_message |-> /\ at_679
                         /\ s.meme_enabled
                         /\ fail \notin {5, 6}
                         /\ generate_meme_text(cl, mreply) # "empty"]

\* handle_message: the three `if session.state == ...` blocks; any other
\* state falls through them.
handle_message(s, cl, msg, fail, call_ok, vreply, mreply) ==
    CASE s.state = "WAITING_TASK" ->
            handle_message_waiting(s, cl, msg, fail, call_ok)
      [] s.state = "SOLVING" ->
            handle_message_solving(s, cl, msg, fail, call_ok)
      [] s.state = "FINAL_ANSWER" ->
            handle_message_final(s, cl, msg, fail, vreply, mreply)
      [] OTHER -> Returned(s)

\* handle_photo.  Awaited calls before the slot is written: 1 reply_text,
\* 2 send_action, 3 get_file, 4 download_to_memory; 5 is the reply after it.
\* Mutant: handle_photo without the check of the state (lines 439-443).
handle_photo_any_state(s, cl, fail, rreply) ==
    LET recognized_text == recognize_math_from_image(cl, rreply)
    IN IF fail \in 1..4 THEN Raised(s)
       ELSE IF recognized_text \in {None, ""}
       THEN (IF fail = 5 THEN Raised(s) ELSE Returned(s))
       ELSE IF fail = 5
       THEN Raised([s EXCEPT !.temp_task = recognized_text])
       ELSE Returned([s EXCEPT !.temp_task = recognized_text])

handle_photo(s, cl, fail, rreply) ==
    LET recognized_text == recognize_math_from_image(cl, rreply)
    IN IF s.state \notin {"WAITING_TASK", "SOLVING"}
       THEN (IF fail = 1 THEN Raised(s) ELSE Returned(s))
       ELSE IF fail \in 1..4 THEN Raised(s)
       ELSE IF recognized_text \in {None, ""}
       THEN (IF fail = 5 THEN Raised(s) ELSE Returned(s))
       ELSE IF fail = 5
       THEN Raised([s EXCEPT !.temp_task = recognized_text])
       ELSE Returned([s EXCEPT !.temp_task = recognized_text])

\* The hint block shared by hint_command and the hint button.
request_hint(s, cl, call_ok) ==
    get_ai_response(
        [s EXCEPT !.stats.total_hints = @ + 1,
                  !.conversation = Append(@, HintTurn)],
        cl, call_ok)

\* callback_data of the buttons the bot sends.
ButtonData ==
    {"cat_basic", "sym_x", "back_menu", "start_solving", "show_stats",
     "settings", "help", "toggle_exam", "toggle_memes", "submit_answer",
     "confirm_task", "edit_task", "retry_photo", "hint", "diff_menu"}
    \cup {"difficulty_easy"}

DifficultyOf(data) == "easy"    \* data.replace("difficulty_", "")

\* button_handler.  fail = 1: query.answer() raises; fail = 2: the awaited
\* Telegram call of the branch raises.
button_handler(s, cl, data, fail, call_ok) ==
    IF fail = 1 THEN Raised(s)
    ELSE
    CASE data \in {"cat_basic", "sym_x", "back_menu"} ->
            (IF fail = 2 THEN Raised(s) ELSE Returned(s))
      [] data = "start_solving" ->
            (IF fail = 2 THEN Raised([s EXCEPT !.state = "WAITING_TASK"])
             ELSE Returned([s EXCEPT !.state = "WAITING_TASK"]))
      [] data \in {"show_stats", "settings", "help"} ->
            (IF fail = 2 THEN Raised(s) ELSE Returned(s))
      [] data = "difficulty_easy" ->
            (IF fail = 2
             THEN Raised([s EXCEPT !.difficulty = DifficultyOf(data)])
             ELSE Returned([s EXCEPT !.difficulty = DifficultyOf(data)]))
      [] data = "toggle_exam" ->
            (IF fail = 2 THEN Raised([s EXCEPT !.exam_mode = ~@])
             ELSE Returned([s EXCEPT !.exam_mode = ~@]))
      [] data = "toggle_memes" ->
            (IF fail = 2 THEN Raised([s EXCEPT !.meme_enabled = ~@])
             ELSE Returned([s EXCEPT !.meme_enabled = ~@]))
      [] data = "submit_answer" ->
            (IF fail = 2 THEN Raised([s EXCEPT !.state = "FINAL_ANSWER"])
             ELSE Returned([s EXCEPT !.state = "FINAL_ANSWER"]))
      [] data = "confirm_task" ->
            IF s.temp_task # Absent          \* hasattr(session, 'temp_task')
            THEN LET s1 == get_ai_response(
                             start_task([s EXCEPT !.temp_task = Absent],
                                        s.temp_task),
                             cl, call_ok)
                 IN IF fail = 2 THEN Raised(s1) ELSE Returned(s1)
            ELSE Returned(s)
      [] data \in {"edit_task", "retry_photo"} ->
            (IF fail = 2 THEN Raised(s)
             ELSE Returned([s EXCEPT !.state = "WAITING_TASK"]))
      [] data = "hint" ->
            IF s.state # "SOLVING"
            THEN (IF fail = 2 THEN Raised(s) ELSE Returned(s))
            ELSE (IF fail = 2 THEN Raised(request_hint(s, cl, call_ok))
                  ELSE Returned(request_hint(s, cl, call_ok)))
      [] OTHER -> Returned(s)

\* reset_command
\* Mutant: /reset also starts the statistics afresh.
reset_command_clearing_stats(s, fail) ==
    LET s1 == [s EXCEPT !.state = "WAITING_TASK", !.current_task = None,
                        !.conversation = <<>>, !.task_start_time = None,
                        !.stats = NewStats]
    IN IF fail = 1 THEN Raised(s1) ELSE Returned(s1)

reset_command(s, fail) ==
    LET s1 == [s EXCEPT !.state = "WAITING_TASK", !.current_task = None,
                        !.conversation = <<>>, !.task_start_time = None]
    IN IF fail = 1 THEN Raised(s1) ELSE Returned(s1)

\* submit_command
submit_command(s, fail) ==
    IF s.state # "SOLVING"
    THEN (IF fail = 1 THEN Raised(s) ELSE Returned(s))
    ELSE (IF fail = 1 THEN Raised([s EXCEPT !.state = "FINAL_ANSWER"])
          ELSE Returned([s EXCEPT !.state = "FINAL_ANSWER"]))

\* hint_command.  fail = 1: the reply in the refusing branch, or the
\* send_action before get_ai_response; fail = 2: the final reply.
hint_command(s, cl, fail, call_ok) ==
    IF s.state # "SOLVING"
    THEN (IF fail = 1 THEN Raised(s) ELSE Returned(s))
    ELSE IF fail = 1
    THEN Raised([s EXCEPT !.stats.total_hints = @ + 1,
                          !.conversation = Append(@, HintTurn)])
    ELSE IF fail = 2 THEN Raised(request_hint(s, cl, call_ok))
    ELSE Returned(request_hint(s, cl, call_ok))

\* start, stats_command: they look the session up and only read it.
read_only_command(s, fail) ==
    IF fail = 1 THEN Raised(s) ELSE Returned(s)

\* ================================================================ agent
\* -------------------------------------------------------- run_stub_plan
\* A step of the YAML plan: s.get("user", ...) and s.get("expect_regex").
\* user is "text", or "pokazhi" (a text containing "покажи").
PlanStep(user, expect) == [user |-> user, expect |-> expect]
PlanSteps == {PlanStep(u, e) : u \in {"text", "pokazhi"}, e \in {None, "re"}}

RECURSIVE SeqsUpTo(_, _)
SeqsUpTo(S, n) ==
    IF n = 0 THEN {<<>>}
    ELSE LET shorter == SeqsUpTo(S, n - 1)
         IN shorter \cup
            {Append(q, x) : q \in {r \in shorter : Len(r) = n - 1}, x \in S}

\* What read_yaml(plan_path) gives: {} for a missing file, None for an
\* empty document, or a mapping with a list of steps.
Plans ==
    {[kind |-> "missing_file", steps |-> <<>>],
     [kind |-> "empty_yaml", steps |-> <<>>]}
    \cup {[kind |-> "mapping", steps |-> q] : q \in SeqsUpTo(PlanSteps, MaxSteps)}

NewResults == [cases |-> <<>>, passed |-> 0, failed |-> 0]

\* Mutant: the heuristic fails the last step whatever its index.
stub_ok_any_last(steps, i) == ~(i = Len(steps))

\* ok of the case of step i (1-based): True, unless it is the last step
\* and its index is even.
stub_ok(steps, i) == ~(i = Len(steps) /\ i % 2 = 0)

\* Mutant: the loop counts every case as passed.
stub_iteration_counts_passed(results, steps, i) ==
    [cases |-> Append(results.cases,
                      [idx |-> i, user |-> steps[i].user,
                       expect |-> steps[i].expect, ok |-> stub_ok(steps, i)]),
     passed |-> results.passed + 1,
     failed |-> results.failed]

\* One iteration of the loop of run_stub_plan, for step i.
stub_iteration(results, steps, i) ==
    LET ok == stub_ok(steps, i)
    IN [cases |-> Append(results.cases,
                         [idx |-> i, user |-> steps[i].user,
                          expect |-> steps[i].expect, ok |-> ok]),
        passed |-> IF ok THEN results.passed + 1 ELSE results.passed,
        failed |-> IF ok THEN results.failed ELSE results.failed + 1]

\* ------------------------------------------- save_report_and_create_pr
\* HTTP status codes a REST call answers with.
Statuses == {200, 404}

RestCall(method, what, status) ==
    [method |-> method, what |-> what, status |-> status]

\* r.raise_for_status() raises for 4xx and 5xx.
raises_for_status(status) == status >= 400

\* `r.status_code not in (200, 201)`
created(status) == status \in {200, 201}

NoRecord == [kind |-> "none"]
LocalRecord == [kind |-> "local", pr |-> None, saved |-> "suggestions.md"]
PrRecord == [kind |-> "pr", pr |-> "html_url"]
PrErrorRecord == [kind |-> "pr_error", pr_error |-> "text"]

\* Mutant: without a token the report is saved locally, but the function
\* goes on to the REST steps instead of returning.
publish_entry_without_return(env, ag) ==
    IF ~env.token
    THEN [ag EXCEPT !.local_saved = TRUE, !.pr_info = LocalRecord,
                    !.pc = "get_repo"]
    ELSE IF ~env.repo
    THEN [ag EXCEPT !.pr_raised = "RuntimeError", !.pc = "done"]
    ELSE [ag EXCEPT !.pc = "get_repo"]

\* The first statements of save_report_and_create_pr (lines 112-125), on
\* the agent's locals ag: without a token the report is written locally and
\* returned; without a repository identifier RuntimeError is raised.
publish_entry(env, ag) ==
    IF ~env.token
    THEN [ag EXCEPT !.local_saved = TRUE, !.pr_info = LocalRecord,
                    !.pc = "done"]
    ELSE IF ~env.repo
    THEN [ag EXCEPT !.pr_raised = "RuntimeError", !.pc = "done"]
    ELSE [ag EXCEPT !.pc = "get_repo"]

\* requests.get(.../repos/{repo}) and r.raise_for_status()
get_repo(ag, status) ==
    LET ag1 == [ag EXCEPT !.calls = Append(@, RestCall("GET", "repo", status))]
    IN IF raises_for_status(status)
       THEN [ag1 EXCEPT !.pr_raised = "HTTPError", !.pc = "done"]
       ELSE [ag1 EXCEPT !.pc = "get_ref"]

\* requests.get(.../git/ref/heads/{default_branch}) and br.raise_for_status()
get_ref(ag, status) ==
    LET ag1 == [ag EXCEPT !.calls = Append(@, RestCall("GET", "ref", status))]
    IN IF raises_for_status(status)
       THEN [ag1 EXCEPT !.pr_raised = "HTTPError", !.pc = "done"]
       ELSE [ag1 EXCEPT !.pc = "post_ref"]

\* Mutant: the ref POST is followed by r.raise_for_status().
post_ref_raising(ag, status) ==
    LET ag1 == [ag EXCEPT !.calls = Append(@, RestCall("POST", "refs", status))]
    IN IF raises_for_status(status)
       THEN [ag1 EXCEPT !.pr_raised = "HTTPError", !.pc = "done"]
       ELSE [ag1 EXCEPT !.pc = "put_file"]

\* requests.post(.../git/refs): the status is logged, whatever it is.
post_ref(ag, status) ==
    [ag EXCEPT !.calls = Append(@, RestCall("POST", "refs", status)),
               !.pc = "put_file"]

\* Mutant: the report file is never put; the pull request is opened at once.
put_file_skipped(ag, status) ==
    [ag EXCEPT !.pc = "post_pr"]

\* requests.put(.../contents/ai_agent/reports/suggestions.md)
put_file(ag, status) ==
    [ag EXCEPT !.calls = Append(@, RestCall("PUT", "contents", status)),
               !.pc = "post_pr"]

\* requests.post(.../pulls): the record returned.
post_pr(ag, status) ==
    [ag EXCEPT !.calls = Append(@, RestCall("POST", "pulls", status)),
               !.pr_info = IF created(status) THEN PrRecord
                           ELSE PrErrorRecord,
               !.pc = "done"]

\* ------------------------------------------------------------------ state
VARIABLES
    user_sessions,   \* bot.user_sessions: user id -> UserSession
    client,          \* bot.client is configured (ANTHROPIC_API_KEY was set)
    score_sum,       \* per user, the sum of the scores folded into
                     \* average_score so far (history variable)
    probe,           \* one call of a function of bot.py: its arguments and,
                     \* once made, its result
    agent_env,       \* agent.py: the plan file and the environment variables
    agent,           \* agent.py: position and locals of main and its callees
    updates          \* the handle_message coroutines started for text updates
                     \* that are dispatched concurrently, in arrival order

bot_vars == <<user_sessions, client, score_sum, updates>>
agent_vars == <<agent_env, agent>>
vars == <<user_sessions, client, score_sum, probe, agent_env, agent, updates>>

NoProbe ==
    [fn |-> "none", done |-> FALSE, cl |-> FALSE, reply |-> NoReply,
     result |-> VerifyFallback]

NoAgentEnv ==
    [plan |-> [kind |-> "missing_file", steps |-> <<>>], token |-> FALSE,
     repo |-> FALSE, key |-> FALSE, sdk |-> FALSE]

\* main before its first statement.
AgentStart ==
    [pc |-> "main", i |-> 0, results |-> NewResults, calls |-> <<>>,
     local_saved |-> FALSE, pr_raised |-> None, pr_info |-> NoRecord,
     plan_raised |-> FALSE, sampled |-> "no", exit_code |-> None]

BotInit ==
    /\ user_sessions = [u \in {} |-> UserSession]
    /\ client \in BOOLEAN
    /\ score_sum = [u \in Users |-> 0]
    /\ updates = <<>>

Init ==
    /\ BotInit
    /\ probe = NoProbe
    /\ agent_env = NoAgentEnv
    /\ agent = AgentStart

\* The session get_session(user_id) returns.
Session(uid) == get_session(user_sessions, uid)[uid]

\* A handler that called get_session(uid) and ended with result r.
Handled(uid, r) ==
    LET s == Session(uid)
    IN /\ user_sessions' =
            [get_session(user_sessions, uid) EXCEPT ![uid] = r.session]
       /\ score_sum' =
            IF r.session.stats.completed_tasks = s.stats.completed_tasks + 1
            THEN [score_sum EXCEPT ![uid] = @ + r.verification.score]
            ELSE score_sum
       /\ UNCHANGED <<client, probe, agent_env, agent, updates>>

\* ---------------------------------------------------------------- actions
Start(uid) ==
    \E fail \in 0..1 : Handled(uid, read_only_command(Session(uid), fail))

StatsCommand(uid) ==
    \E fail \in 0..1 : Handled(uid, read_only_command(Session(uid), fail))

\* keyboard_command does not look the session up.
KeyboardCommand(uid) == UNCHANGED vars

ResetCommand(uid) ==
    \E fail \in 0..1 : Handled(uid, reset_command(Session(uid), fail))

SubmitCommand(uid) ==
    \E fail \in 0..1 : Handled(uid, submit_command(Session(uid), fail))

HintCommand(uid) ==
    LET s == Session(uid)
    IN /\ s.state = "SOLVING" =>
            /\ s.stats.total_hints < MaxHints
            /\ Len(s.conversation) + 2 <= MaxConv
       /\ \E fail \in 0..2, call_ok \in BOOLEAN :
            Handled(uid, hint_command(s, client, fail, call_ok))

\* Mutant: toggle_exam also moves the session to the EXAM_MODE state.
ButtonPress_entering_exam_mode(uid, data, fail) ==
    LET s == Session(uid)
    IN IF fail = 1 THEN UNCHANGED vars
       ELSE
       /\ (data = "confirm_task" /\ s.temp_task # Absent) =>
                s.stats.total_tasks < MaxTasks
       /\ (data = "hint" /\ s.state = "SOLVING") =>
                /\ s.stats.total_hints < MaxHints
                /\ Len(s.conversation) + 2 <= MaxConv
       /\ \E call_ok \in (IF data \in {"confirm_task", "hint"}
                           THEN BOOLEAN ELSE {TRUE}) :
            LET r == button_handler(s, client, data, fail, call_ok)
            IN Handled(uid, IF data = "toggle_exam" /\ r.session.exam_mode
                            THEN [r EXCEPT !.session.state = "EXAM_MODE"]
                            ELSE r)

\* Mutant: the settings screen and the meme toggle drop the conversation.
ButtonPress_dropping_conversation(uid, data, fail) ==
    LET s == Session(uid)
    IN IF fail = 1 THEN UNCHANGED vars
       ELSE
       /\ (data = "confirm_task" /\ s.temp_task # Absent) =>
                s.stats.total_tasks < MaxTasks
       /\ (data = "hint" /\ s.state = "SOLVING") =>
                /\ s.stats.total_hints < MaxHints
                /\ Len(s.conversation) + 2 <= MaxConv
       /\ \E call_ok \in (IF data \in {"confirm_task", "hint"}
                           THEN BOOLEAN ELSE {TRUE}) :
            LET r == button_handler(s, client, data, fail, call_ok)
            IN Handled(uid, IF data \in {"settings", "toggle_memes"}
                            THEN [r EXCEPT !.session.conversation = <<>>]
                            ELSE r)

\* One callback-button press, handled by button_handler.  fail = 1:
\* query.answer() (line 206) raises before get_session is called.
ButtonPress(uid, data, fail) ==
    LET s == Session(uid)
    IN IF fail = 1 THEN UNCHANGED vars
       ELSE
       /\ (data = "confirm_task" /\ s.temp_task # Absent) =>
                s.stats.total_tasks < MaxTasks
       /\ (data = "hint" /\ s.state = "SOLVING") =>
                /\ s.stats.total_hints < MaxHints
                /\ Len(s.conversation) + 2 <= MaxConv
       /\ \E call_ok \in (IF data \in {"confirm_task", "hint"}
                           THEN BOOLEAN ELSE {TRUE}) :
            Handled(uid, button_handler(s, client, data, fail, call_ok))

ButtonHandler(uid) ==
    \E data \in ButtonData, fail \in 0..2 : ButtonPress(uid, data, fail)

HandlePhoto(uid) ==
    \E fail \in 0..5, rreply \in RecogReplies :
        Handled(uid, handle_photo(Session(uid), client, fail, rreply))

\* One text message handled by handle_message with the given inputs.
TextMessage(uid, msg, fail, call_ok, vreply, mreply) ==
    LET s == Session(uid)
    IN /\ s.state = "WAITING_TASK" => s.stats.total_tasks < MaxTasks
       /\ s.state = "SOLVING" => Len(s.conversation) + 2 <= MaxConv
       /\ s.state = "FINAL_ANSWER" => s.stats.completed_tasks < MaxCompleted
       /\ Handled(uid, handle_message(s, client, msg, fail, call_ok, vreply,
                                      mreply))

\* handle_message; each branch draws the inputs it reads.
HandleMessage(uid) ==
    LET s == Session(uid)
    IN IF s.state = "FINAL_ANSWER"
       THEN \E msg \in Texts, fail \in FailPoints,
               vreply \in BotVerifyReplies, mreply \in MemeReplies :
                TextMessage(uid, msg, fail, TRUE, vreply, mreply)
       ELSE \E msg \in Texts, fail \in 0..2, call_ok \in BOOLEAN :
                TextMessage(uid, msg, fail, call_ok, NoReply, "text")

Next ==
    \E uid \in Users :
        \/ Start(uid)
        \/ StatsCommand(uid)
        \/ KeyboardCommand(uid)
        \/ ResetCommand(uid)
        \/ SubmitCommand(uid)
        \/ HintCommand(uid)
        \/ ButtonHandler(uid)
        \/ HandlePhoto(uid)
        \/ HandleMessage(uid)

Spec == Init /\ [][Next]_vars

\* ------------------------------------------------------- claims (bot)
AssistantTurn == Turn("assistant", "reply", None)

\* A /submit command or a press of the submit_answer button by user u.
SubmitTrigger(u) ==
    \/ SubmitCommand(u)
    \/ \E fail \in 0..2 : ButtonPress(u, "submit_answer", fail)

\* C1: a session's state becomes FINAL_ANSWER only by a submit trigger taken
\* while the state is SOLVING, and a submit trigger taken in any other state
\* leaves the state unchanged.
C1_SubmitOnlyWhileSolving ==
    [][\A u \in Users :
        /\ (Session(u)'.state = "FINAL_ANSWER"
            /\ Session(u).state # "FINAL_ANSWER")
                => (Session(u).state = "SOLVING" /\ SubmitTrigger(u))
        /\ (SubmitTrigger(u) /\ Session(u).state # "SOLVING")
                => Session(u)'.state = Session(u).state]_vars

\* A step in which a new task is started for user u.
TaskStarted(u) ==
    Session(u)'.stats.total_tasks = Session(u).stats.total_tasks + 1

\* C2: a new task is started (total_tasks incremented, state set to SOLVING,
\* current_task replaced) only when the session is in WAITING_TASK.
C2_TaskStartsOnlyWhenWaiting ==
    [][\A u \in Users :
        TaskStarted(u) => Session(u).state = "WAITING_TASK"]_vars

\* C3: every text message handled in FINAL_ANSWER leaves the session in
\* WAITING_TASK with current_task, conversation and task_start_time reset,
\* completed_tasks incremented by one and one history entry appended.
C3_FinalAnswerAlwaysCompletes ==
    [][\A u \in Users :
        (Session(u).state = "FINAL_ANSWER" /\ HandleMessage(u)) =>
            /\ Session(u)'.state = "WAITING_TASK"
            /\ Session(u)'.current_task = None
            /\ Session(u)'.conversation = <<>>
            /\ Session(u)'.task_start_time = None
            /\ Session(u)'.stats.completed_tasks =
                    Session(u).stats.completed_tasks + 1
            /\ Len(Session(u)'.stats.tasks_history) =
                    Len(Session(u).stats.tasks_history) + 1]_vars

\* C4: whenever a new task begins, the conversation afterwards is the
\* task-framing turn of the new task, followed by at most the assistant's
\* reply to it; no turn of an earlier task remains.
C4_ConversationClearedOnStart ==
    [][\A u \in Users :
        TaskStarted(u) =>
            LET s == Session(u)'
            IN s.conversation \in
                 {<<FramingTurn(s.current_task)>>,
                  <<FramingTurn(s.current_task), AssistantTurn>>}]_vars

\* C4 witness: a second task was started (from a photo) while the first one
\* was not completed, and its conversation is the fresh pair of turns.
C4_Witness ==
    \E u \in DOMAIN user_sessions :
        LET s == user_sessions[u]
        IN /\ s.stats.total_tasks = 2
           /\ s.stats.completed_tasks = 0
           /\ s.current_task \in Photos
           /\ s.conversation = <<FramingTurn(s.current_task), AssistantTurn>>

\* C5: each of confirm_task, edit_task and retry_photo clears the pending
\* recognized-task slot: after the button the slot holds no recognized text.
C5_FollowUpButtonsClearSlot ==
    [][\A u \in Users :
        \A data \in {"confirm_task", "edit_task", "retry_photo"} :
            (Session(u).temp_task \in Photos /\ ButtonPress(u, data, 0))
                => Session(u)'.temp_task \notin Photos]_vars

\* C6: after n >= 1 completions average_score is the arithmetic mean of the
\* n scores: average_score * completed_tasks equals their sum (and the
\* average is 0 before the first completion).
C6_AverageIsMean ==
    \A u \in DOMAIN user_sessions :
        LET st == user_sessions[u].stats
        IN /\ st.average_score[1] * st.completed_tasks
                = score_sum[u] * st.average_score[2]
           /\ st.completed_tasks = 0 => st.average_score = <<0, 1>>

\* C6 witness: two completions with different scores (50 and 85).
C6_Witness ==
    \E u \in DOMAIN user_sessions :
        LET st == user_sessions[u].stats
        IN /\ st.completed_tasks = 2
           /\ st.average_score = <<135, 2>>
           /\ score_sum[u] = 135

\* ============================================================= SpecProbe
\* Single calls of functions of bot.py, on arguments drawn at the start.
\* Sessions get_ai_response is called on: each state, with conversations
\* that end with a user turn.
ProbeSessions ==
    {[UserSession EXCEPT !.state = st, !.conversation = conv] :
        st \in SessionState,
        conv \in {<<FramingTurn("a")>>,
                  <<FramingTurn("a"), AssistantTurn, UserTurn("a")>>,
                  <<FramingTurn("a"), AssistantTurn, HintTurn>>}}

ProbeInit ==
    /\ user_sessions = [u \in {} |-> UserSession]
    /\ client = FALSE
    /\ score_sum = [u \in Users |-> 0]
    /\ updates = <<>>
    /\ \/ probe \in {[fn |-> "verify_solution", done |-> FALSE, cl |-> cl,
                      reply |-> reply, result |-> VerifyFallback] :
                       cl \in BOOLEAN, reply \in VerifyReplies}
       \/ probe \in {[fn |-> "recognize_math_from_image", done |-> FALSE,
                      cl |-> cl, reply |-> reply, result |-> RNone] :
                       cl \in BOOLEAN, reply \in RecogCallReplies}
       \/ probe \in {[fn |-> "get_ai_response", done |-> FALSE, cl |-> cl,
                      reply |-> [session |-> s, call_ok |-> call_ok],
                      result |-> [raised |-> None, reply |-> "none",
                                  session |-> s]] :
                       cl \in BOOLEAN, s \in ProbeSessions,
                       call_ok \in BOOLEAN}
    /\ agent_env = NoAgentEnv
    /\ agent = AgentStart

CallVerifySolution ==
    /\ probe.fn = "verify_solution"
    /\ ~probe.done
    /\ probe' = [probe EXCEPT !.done = TRUE,
                              !.result = verify_solution(probe.cl, probe.reply)]
    /\ UNCHANGED <<bot_vars, agent_vars>>

CallRecognize ==
    /\ probe.fn = "recognize_math_from_image"
    /\ ~probe.done
    /\ probe' = [probe EXCEPT !.done = TRUE,
                              !.result = recognize_text(probe.cl, probe.reply)]
    /\ UNCHANGED <<bot_vars, agent_vars>>

CallGetAiResponse ==
    /\ probe.fn = "get_ai_response"
    /\ ~probe.done
    /\ probe' = [probe EXCEPT
            !.done = TRUE,
            !.result = get_ai_response_call(probe.reply.session, probe.cl,
                                            probe.reply.call_ok)]
    /\ UNCHANGED <<bot_vars, agent_vars>>

ProbeNext ==
    \/ CallVerifySolution
    \/ CallRecognize
    \/ CallGetAiResponse

SpecProbe == ProbeInit /\ [][ProbeNext]_vars

\* ============================================================= SpecAgent
AgentInit ==
    /\ user_sessions = [u \in {} |-> UserSession]
    /\ client = FALSE
    /\ score_sum = [u \in Users |-> 0]
    /\ updates = <<>>
    /\ probe = NoProbe
    /\ agent_env \in [plan : Plans, token : BOOLEAN, repo : BOOLEAN,
                      key : BOOLEAN, sdk : BOOLEAN]
    /\ agent = AgentStart

AgentStep(ag) ==
    /\ agent' = ag
    /\ UNCHANGED <<bot_vars, probe, agent_env>>

\* main, lines 199-213: the sample call is made only with a key and the SDK.
MainStart ==
    /\ agent.pc = "main"
    /\ AgentStep([agent EXCEPT !.pc = IF agent_env.key /\ agent_env.sdk
                                      THEN "sample" ELSE "run_stub_plan"])

\* Mutant: a failed sample call is not caught inside main's outer try and
\* ends the run as a failed plan.
MainSample_failure_ends_run ==
    /\ agent.pc = "sample"
    /\ \E outcome \in {"ok", "failed"} :
        AgentStep(IF outcome = "failed"
                  THEN [agent EXCEPT !.sampled = outcome,
                                     !.plan_raised = TRUE, !.exit_code = 1,
                                     !.pc = "exit"]
                  ELSE [agent EXCEPT !.sampled = outcome,
                                     !.pc = "run_stub_plan"])

\* call_anthropic for the sample reply; a failure is logged and ignored.
MainSample ==
    /\ agent.pc = "sample"
    /\ \E outcome \in {"ok", "failed"} :
        AgentStep([agent EXCEPT !.sampled = outcome, !.pc = "run_stub_plan"])

\* run_stub_plan up to its loop: plan.get raises on an empty document
\* (plan is None), which main turns into exit code 1.
RunStubPlanStart ==
    /\ agent.pc = "run_stub_plan"
    /\ AgentStep(IF agent_env.plan.kind = "empty_yaml"
                 THEN [agent EXCEPT !.plan_raised = TRUE, !.exit_code = 1,
                                    !.pc = "exit"]
                 ELSE [agent EXCEPT !.results = NewResults, !.i = 1,
                                    !.pc = "loop"])

RunStubPlanIteration ==
    /\ agent.pc = "loop"
    /\ agent.i <= Len(agent_env.plan.steps)
    /\ AgentStep([agent EXCEPT
            !.results = stub_iteration(@, agent_env.plan.steps, agent.i),
            !.i = @ + 1])

\* `return results`, then main writes report_<time>.json.
RunStubPlanReturn ==
    /\ agent.pc = "loop"
    /\ agent.i > Len(agent_env.plan.steps)
    /\ AgentStep([agent EXCEPT !.pc = "publish"])

PublishEntry ==
    /\ agent.pc = "publish"
    /\ AgentStep(publish_entry(agent_env, agent))

GetRepo ==
    /\ agent.pc = "get_repo"
    /\ \E status \in Statuses : AgentStep(get_repo(agent, status))

GetRef ==
    /\ agent.pc = "get_ref"
    /\ \E status \in Statuses : AgentStep(get_ref(agent, status))

PostRef ==
    /\ agent.pc = "post_ref"
    /\ \E status \in Statuses : AgentStep(post_ref(agent, status))

PutFile ==
    /\ agent.pc = "put_file"
    /\ \E status \in Statuses : AgentStep(put_file(agent, status))

PostPr ==
    /\ agent.pc = "post_pr"
    /\ \E status \in Statuses : AgentStep(post_pr(agent, status))

\* Mutant: main exits 1 when the publisher raised.
MainExit_failing_on_publisher_error ==
    /\ agent.pc = "done"
    /\ AgentStep([agent EXCEPT
            !.exit_code = IF agent.pr_raised # None THEN 1 ELSE 0,
            !.pc = "exit"])

\* main, lines 226-233: an exception of the publisher is logged; exit 0.
MainExit ==
    /\ agent.pc = "done"
    /\ AgentStep([agent EXCEPT !.exit_code = 0, !.pc = "exit"])

AgentNext ==
    \/ MainStart
    \/ MainSample
    \/ RunStubPlanStart
    \/ RunStubPlanIteration
    \/ RunStubPlanReturn
    \/ PublishEntry
    \/ GetRepo
    \/ GetRef
    \/ PostRef
    \/ PutFile
    \/ PostPr
    \/ MainExit

SpecAgent == AgentInit /\ [][AgentNext]_vars

\* ------------------------------------------- claims (verify_solution)
\* The cases in which verify_solution has nothing to build a result from: no
\* client, a failed completion call, a reply that is not JSON or not a JSON
\* object, or an object whose score int() rejects.
VerifyFallbackCase ==
    \/ ~probe.cl
    \/ probe.reply.kind \in {"api_error", "not_json", "json_non_object"}
    \/ probe.reply.score_t \in {"text", "null"}

\* C7: verify_solution never raises; without a client, when the completion
\* call fails, or when the reply is not a JSON object with usable fields, it
\* returns the fixed fallback: correct = false, score = 50, feedback not empty.
C7_VerifyNeverRaises ==
    (probe.fn = "verify_solution" /\ probe.done) =>
        /\ probe.result.raised = None
        /\ VerifyFallbackCase =>
              /\ probe.result = VerifyFallback
              /\ probe.result.correct = FALSE
              /\ probe.result.score = 50
              /\ probe.result.feedback # ""

\* C7 witness: with a client, the reply was a JSON object whose score is not
\* a number, and the call returned the fallback.
C7_Witness ==
    /\ probe.done
    /\ probe.cl
    /\ probe.reply.kind = "object"
    /\ probe.reply.score_t = "text"
    /\ probe.reply.correct = "true"
    /\ probe.result = VerifyFallback

\* -------------------------------------------------------- claims (agent)
\* run_stub_plan has returned its report to main.
RunStubPlanReturned ==
    /\ agent.pc \notin {"main", "sample", "run_stub_plan", "loop"}
    /\ ~agent.plan_raised

\* C8: for a plan of k steps the report has exactly k cases, indexed 1..k in
\* plan order, passed + failed = k, and a case is failed exactly when it is
\* the last one and k is even: failed is 1 for even k > 0 and 0 otherwise.
C8_StubReportCounts ==
    RunStubPlanReturned =>
        LET steps == agent_env.plan.steps
            k == Len(steps)
            r == agent.results
        IN /\ Len(r.cases) = k
           /\ \A j \in 1..k :
                /\ r.cases[j].idx = j
                /\ r.cases[j].user = steps[j].user
                /\ r.cases[j].expect = steps[j].expect
                /\ ~r.cases[j].ok <=> (j = k /\ k % 2 = 0)
           /\ r.passed + r.failed = k
           /\ r.failed = IF k > 0 /\ k % 2 = 0 THEN 1 ELSE 0

\* C8 witness: the report of a two-step plan, whose second case failed.
C8_Witness ==
    /\ RunStubPlanReturned
    /\ Len(agent_env.plan.steps) = 2
    /\ agent.results.passed = 1
    /\ agent.results.failed = 1
    /\ ~agent.results.cases[2].ok

\* save_report_and_create_pr was called and has returned or raised.
PublisherLeft ==
    /\ agent.pc \in {"done", "exit"}
    /\ ~agent.plan_raised

\* C9: without a GITHUB_TOKEN save_report_and_create_pr makes no REST call,
\* writes the report locally, raises nothing and returns a record with the
\* saved path and a null PR URL.
C9_NoTokenLocalOnly ==
    (PublisherLeft /\ ~agent_env.token) =>
        /\ agent.calls = <<>>
        /\ agent.local_saved
        /\ agent.pr_raised = None
        /\ agent.pr_info.kind = "local"
        /\ agent.pr_info.pr = None
        /\ agent.pr_info.saved # None

\* C9 witness: no token (a repository identifier is set), and the publisher
\* has returned the local record.
C9_Witness ==
    /\ agent.pc = "done"
    /\ ~agent_env.token
    /\ agent_env.repo
    /\ agent.pr_info = LocalRecord

\* C10: with a GITHUB_TOKEN save_report_and_create_pr never raises: whatever
\* the REST steps answer, and also without a repository identifier, it
\* returns a result record (PR URL or error string).
C10_PublisherNeverRaises ==
    (PublisherLeft /\ agent_env.token) =>
        /\ agent.pr_raised = None
        /\ agent.pr_info \in {PrRecord, PrErrorRecord}

\* A GET of the publisher was answered with an error status.
SomeGetFailed ==
    \E j \in 1..Len(agent.calls) :
        /\ agent.calls[j].method = "GET"
        /\ raises_for_status(agent.calls[j].status)

\* C10, amended: with a GITHUB_TOKEN the publisher raises RuntimeError when no
\* repository identifier is set and HTTPError when the repository GET or the
\* branch-ref GET is answered with an error status (main logs it and exits
\* 0); otherwise it makes all five calls, continuing past any answer to the
\* ref POST and the file PUT, and returns the PR URL or an error string.
C10_PublisherRaisesOnlyBeforeRefPost ==
    (PublisherLeft /\ agent_env.token) =>
        /\ IF ~agent_env.repo
           THEN /\ agent.pr_raised = "RuntimeError"
                /\ agent.calls = <<>>
                /\ agent.pr_info = NoRecord
           ELSE IF SomeGetFailed
           THEN /\ agent.pr_raised = "HTTPError"
                /\ Len(agent.calls) \in 1..2
                /\ raises_for_status(agent.calls[Len(agent.calls)].status)
                /\ agent.pr_info = NoRecord
           ELSE /\ agent.pr_raised = None
                /\ [j \in 1..Len(agent.calls) |-> agent.calls[j].what]
                      = <<"repo", "ref", "refs", "contents", "pulls">>
                /\ agent.pr_info = IF created(agent.calls[5].status)
                                   THEN PrRecord ELSE PrErrorRecord
        /\ agent.pc = "exit" => agent.exit_code = 0

\* C10 witness: both GETs succeeded, the ref POST and the file PUT were
\* answered 404, and the publisher returned the PR URL.
C10_Witness ==
    /\ agent.pc = "done"
    /\ agent_env.token
    /\ Len(agent.calls) = 5
    /\ agent.calls[3].status = 404
    /\ agent.calls[4].status = 404
    /\ agent.pr_raised = None
    /\ agent.pr_info = PrRecord

\* The REST steps of the publisher, in the order of the source.
PublishOrder ==
    << [method |-> "GET", what |-> "repo"],
       [method |-> "GET", what |-> "ref"],
       [method |-> "POST", what |-> "refs"],
       [method |-> "PUT", what |-> "contents"],
       [method |-> "POST", what |-> "pulls"] >>

\* C11: the publisher issues its calls in the fixed order GET repository,
\* GET branch ref, POST ref, PUT file, POST pull request, each at most once
\* (so the pull request is never posted before the ref POST and the file PUT
\* were attempted); with a credential, a repository and every call answered
\* with success it makes all five and returns the record with the PR URL.
C11_PublishOrder ==
    /\ Len(agent.calls) <= Len(PublishOrder)
    /\ \A j \in 1..Len(agent.calls) :
          /\ agent.calls[j].method = PublishOrder[j].method
          /\ agent.calls[j].what = PublishOrder[j].what
    /\ ( /\ PublisherLeft
         /\ agent_env.token
         /\ agent_env.repo
         /\ \A j \in 1..Len(agent.calls) : created(agent.calls[j].status) )
       => /\ Len(agent.calls) = Len(PublishOrder)
          /\ agent.pr_raised = None
          /\ agent.pr_info = PrRecord

\* C11 witness: all five calls were answered 200 and the PR URL was returned.
C11_Witness ==
    /\ agent.pc = "done"
    /\ agent_env.token
    /\ agent_env.repo
    /\ Len(agent.calls) = 5
    /\ \A j \in 1..5 : agent.calls[j].status = 200
    /\ agent.pr_info = PrRecord

\* C12: main exits with code 1 only if run_stub_plan raised, and with code 0
\* in every run that reaches its end; a failed sample call or an exception
\* of save_report_and_create_pr leaves the exit code 0.
C12_ExitCodes ==
    agent.pc = "exit" =>
        /\ agent.exit_code = IF agent.plan_raised THEN 1 ELSE 0
        /\ agent.plan_raised <=> agent_env.plan.kind = "empty_yaml"

\* C12 witness: the sample call failed and the publisher raised, and main
\* has exited with code 0.
C12_Witness ==
    /\ agent.pc = "exit"
    /\ agent.sampled = "failed"
    /\ agent.pr_raised = "HTTPError"
    /\ agent.exit_code = 0

\* ---------------------------------------------- claims (recognizer)
RecognizeCalled == probe.fn = "recognize_math_from_image" /\ probe.done

\* C13: recognize_math_from_image returns null when the reply contains the
\* sentinel НЕТ ЗАДАЧИ, and for every other reply text returns that text
\* trimmed; without a client or when the call fails it returns null; it
\* never raises.
C13_RecognizerSentinelOnly ==
    RecognizeCalled =>
        /\ probe.result.raised = None
        /\ (~probe.cl \/ probe.reply.kind # "text") => probe.result.null
        /\ (probe.cl /\ probe.reply.kind = "text") =>
              IF contains(probe.reply.text, NO_TASK)
              THEN probe.result.null
              ELSE /\ ~probe.result.null
                   /\ probe.result.text = strip(probe.reply.text)

\* C13, amended: the sentinel is matched in any letter case: null is
\* returned when the upper-cased reply contains НЕТ ЗАДАЧИ; every other
\* reply text is returned trimmed and otherwise unchanged (the empty text
\* included); null without a client or when the call fails; no raise.
C13_RecognizerSentinelAnyCase ==
    RecognizeCalled =>
        /\ probe.result.raised = None
        /\ (~probe.cl \/ probe.reply.kind # "text") => probe.result.null
        /\ (probe.cl /\ probe.reply.kind = "text") =>
              IF contains(upper(probe.reply.text), NO_TASK)
              THEN probe.result.null
              ELSE /\ ~probe.result.null
                   /\ probe.result.text = strip(probe.reply.text)

\* C13 witness: a reply with blanks around a lower-case text was returned
\* trimmed, in its own letter case.
C13_Witness ==
    /\ RecognizeCalled
    /\ probe.cl
    /\ probe.reply.text = <<" ", "x", "n", " ">>
    /\ probe.result = RResult(None, FALSE, <<"x", "n">>)

\* ======================================================== SpecConcurrent
\* handle_message for texts that arrive while the session is SOLVING, with
\* the updates dispatched concurrently: each coroutine runs from one await
\* to the next, and the coroutines of one user share the session object.
ConcurrentTexts == {"a", "b"}

\* A coroutine of handle_message: pc names the await it is suspended at;
\* overlapped records that another coroutine of the same user was running
\* at some moment of its life (history field).
Coroutine(uid, msg, pc, overlapped) ==
    [uid |-> uid, msg |-> msg, pc |-> pc, overlapped |-> overlapped]

Suspended(c) == c.pc \in {"send_action", "call_claude", "reply_text"}

\* Mutant: the user's message is not appended.
begin_solving_message_without_turn(s, msg) == s

\* Lines 598-602: the user turn is appended before the first await.
begin_solving_message(s, msg) ==
    [s EXCEPT !.conversation = Append(@, UserTurn(msg))]

ConcurrentInit ==
    /\ client \in BOOLEAN
    /\ user_sessions =
         [u \in Users |->
            handle_message_waiting(UserSession, client, "a", 0, TRUE).session]
    /\ score_sum = [u \in Users |-> 0]
    /\ updates = <<>>
    /\ probe = NoProbe
    /\ agent_env = NoAgentEnv
    /\ agent = AgentStart

Resume(k, pc) ==
    updates' = [updates EXCEPT ![k].pc = pc]

\* A text update arrives: handle_message runs to `await send_action`.
UpdateArrives(uid, msg) ==
    /\ Len(updates) < MaxUpdates
    /\ Session(uid).state = "SOLVING"
    /\ LET others == {k \in 1..Len(updates) :
                         Suspended(updates[k]) /\ updates[k].uid = uid}
       IN updates' =
            Append([k \in 1..Len(updates) |->
                       IF k \in others
                       THEN [updates[k] EXCEPT !.overlapped = TRUE]
                       ELSE updates[k]],
                   Coroutine(uid, msg, "send_action", others # {}))
    /\ user_sessions' =
         [user_sessions EXCEPT ![uid] = begin_solving_message(@, msg)]
    /\ UNCHANGED <<client, score_sum, probe, agent_env, agent>>

\* send_action returns or raises.  When it returns, get_ai_response starts:
\* with a client it suspends at call_claude; without one it appends the
\* canned reply at once and handle_message suspends at reply_text.
SendActionDone(k) ==
    /\ updates[k].pc = "send_action"
    /\ \E ok \in BOOLEAN :
        IF ~ok
        THEN Resume(k, "raised_send_action") /\ UNCHANGED user_sessions
        ELSE IF client
        THEN Resume(k, "call_claude") /\ UNCHANGED user_sessions
        ELSE /\ Resume(k, "reply_text")
             /\ user_sessions' =
                  [user_sessions EXCEPT ![updates[k].uid] =
                      get_ai_response(@, client, FALSE)]
    /\ UNCHANGED <<client, score_sum, probe, agent_env, agent>>

\* call_claude returns or raises: get_ai_response appends the reply.
CallClaudeDone(k) ==
    /\ updates[k].pc = "call_claude"
    /\ \E call_ok \in BOOLEAN :
        user_sessions' =
            [user_sessions EXCEPT ![updates[k].uid] =
                get_ai_response(@, client, call_ok)]
    /\ Resume(k, "reply_text")
    /\ UNCHANGED <<client, score_sum, probe, agent_env, agent>>

\* reply_text returns or raises; the coroutine ends.
ReplyTextDone(k) ==
    /\ updates[k].pc = "reply_text"
    /\ \E ok \in BOOLEAN :
        Resume(k, IF ok THEN "done" ELSE "raised_reply_text")
    /\ UNCHANGED <<user_sessions, client, score_sum, probe, agent_env, agent>>

ConcurrentNext ==
    \/ \E uid \in Users, msg \in ConcurrentTexts : UpdateArrives(uid, msg)
    \/ \E k \in 1..Len(updates) : SendActionDone(k)
    \/ \E k \in 1..Len(updates) : CallClaudeDone(k)
    \/ \E k \in 1..Len(updates) : ReplyTextDone(k)

SpecConcurrent == ConcurrentInit /\ [][ConcurrentNext]_vars

\* user and assistant turns alternate, a user turn first.
Alternating(conversation) ==
    \A j \in 1..Len(conversation) :
        conversation[j].role = IF j % 2 = 1 THEN "user" ELSE "assistant"

HandlersWithTry == {"start", "handle_photo", "handle_message"}

\* The exception raised in a handler with result r leaves the handler: it is
\* not caught, or the apology sent from the except block raises as well.
escapes(handler, r, apology_ok) ==
    r.raised /\ (handler \in HandlersWithTry => ~apology_ok)

\* C15: every top-level handler catches every exception raised while it
\* handles an update, reports it and apologises; no exception escapes a
\* handler.
C15_NoExceptionEscapes ==
    [][\A u \in Users, apology_ok \in BOOLEAN :
        LET s == Session(u)
        IN /\ \A fail \in 0..1 :
                /\ Handled(u, read_only_command(s, fail)) =>
                      /\ ~escapes("start", read_only_command(s, fail),
                                  apology_ok)
                      /\ ~escapes("stats_command", read_only_command(s, fail),
                                  apology_ok)
                /\ Handled(u, reset_command(s, fail)) =>
                      ~escapes("reset_command", reset_command(s, fail),
                               apology_ok)
                /\ Handled(u, submit_command(s, fail)) =>
                      ~escapes("submit_command", submit_command(s, fail),
                               apology_ok)
           /\ \A fail \in 0..2, call_ok \in BOOLEAN :
                /\ Handled(u, hint_command(s, client, fail, call_ok)) =>
                      ~escapes("hint_command",
                               hint_command(s, client, fail, call_ok),
                               apology_ok)
                /\ \A data \in ButtonData :
                      Handled(u, button_handler(s, client, data, fail,
                                                call_ok)) =>
                          ~escapes("button_handler",
                                   button_handler(s, client, data, fail,
                                                  call_ok),
                                   apology_ok)
           /\ \A fail \in 0..5, rreply \in RecogReplies :
                Handled(u, handle_photo(s, client, fail, rreply)) =>
                    ~escapes("handle_photo",
                             handle_photo(s, client, fail, rreply),
                             apology_ok)
           /\ \A msg \in Texts, fail \in FailPoints, call_ok \in BOOLEAN,
                 vreply \in BotVerifyReplies, mreply \in MemeReplies :
                Handled(u, handle_message(s, client, msg, fail, call_ok,
                                          vreply, mreply)) =>
                    ~escapes("handle_message",
                             handle_message(s, client, msg, fail, call_ok,
                                            vreply, mreply),
                             apology_ok)]_vars

\* A hint request of user u: the /hint command or the hint button.
HintTrigger(u) ==
    \/ HintCommand(u)
    \/ \E fail \in 0..2 : ButtonPress(u, "hint", fail)

\* C16: a hint request has an effect only in SOLVING: there total_hints
\* grows by exactly one, one hint-request turn and one assistant turn are
\* appended and the state stays SOLVING; in any other state total_hints,
\* the conversation and the state are unchanged.
C16_HintOnlyWhileSolving ==
    [][\A u \in Users :
        HintTrigger(u) =>
            LET s == Session(u)
                t == Session(u)'
            IN IF s.state = "SOLVING"
               THEN /\ t.stats.total_hints = s.stats.total_hints + 1
                    /\ t.conversation =
                          s.conversation \o <<HintTurn, AssistantTurn>>
                    /\ t.state = "SOLVING"
               ELSE /\ t.stats.total_hints = s.stats.total_hints
                    /\ t.conversation = s.conversation
                    /\ t.state = s.state]_vars

\* ============================================================== SpecExam
\* Runs of one user who has switched exam mode on (toggle_exam on a fresh
\* session) and then sends tasks, messages, hint requests and /reset.
ExamInit ==
    /\ client \in BOOLEAN
    /\ user_sessions =
         [u \in Users |->
            button_handler(UserSession, client, "toggle_exam", 0, TRUE).session]
    /\ score_sum = [u \in Users |-> 0]
    /\ updates = <<>>
    /\ probe = NoProbe
    /\ agent_env = NoAgentEnv
    /\ agent = AgentStart

ExamText(uid) ==
    LET s == Session(uid)
    IN /\ s.state \in {"WAITING_TASK", "SOLVING"}
       /\ s.state = "WAITING_TASK" => s.stats.total_tasks < MaxTasks
       /\ s.state = "SOLVING" => Len(s.conversation) + 2 <= MaxExamConv
       /\ \E msg \in Texts, fail \in 0..2, call_ok \in BOOLEAN :
            Handled(uid, handle_message(s, client, msg, fail, call_ok,
                                        NoReply, "text"))

ExamHintCommand(uid) ==
    LET s == Session(uid)
    IN /\ s.state = "SOLVING" =>
            /\ s.stats.total_hints < MaxExamHints
            /\ Len(s.conversation) + 2 <= MaxExamConv
       /\ \E fail \in 0..2, call_ok \in BOOLEAN :
            Handled(uid, hint_command(s, client, fail, call_ok))

ExamHintButton(uid) ==
    LET s == Session(uid)
    IN /\ s.state = "SOLVING" =>
            /\ s.stats.total_hints < MaxExamHints
            /\ Len(s.conversation) + 2 <= MaxExamConv
       /\ \E fail \in 0..2, call_ok \in BOOLEAN :
            Handled(uid, button_handler(s, client, "hint", fail, call_ok))

ExamReset(uid) ==
    \E fail \in 0..1 : Handled(uid, reset_command(Session(uid), fail))

ExamNext ==
    \E uid \in Users :
        \/ ExamText(uid)
        \/ ExamHintCommand(uid)
        \/ ExamHintButton(uid)
        \/ ExamReset(uid)

SpecExam == ExamInit /\ [][ExamNext]_vars

\* The hints granted during the current task: its hint-request turns (the
\* conversation is emptied when a task starts).
HintTurns(conversation) ==
    Cardinality({j \in 1..Len(conversation) : conversation[j].kind = "hint"})

\* C17: while exam mode is on, the hints granted during one task are
\* bounded: past a limit a further hint request is refused.  Stated for the
\* largest limit the runs can tell apart: in exam mode the hints granted
\* during one task stay below MaxExamHints.
C17_ExamHintsLimited ==
    \A u \in DOMAIN user_sessions :
        user_sessions[u].exam_mode =>
            HintTurns(user_sessions[u].conversation) < MaxExamHints

\* ------------------------------------------- claims (get_ai_response)
GetAiResponseCalled == probe.fn = "get_ai_response" /\ probe.done

HistoryShown == 5

build_statistics_history(stats) ==
    LET h == stats.tasks_history
    IN IF Len(h) <= HistoryShown THEN h
       ELSE SubSeq(h, Len(h) - HistoryShown + 1, Len(h))

\* Runs in which one user solves task after task, sending photos in between.
HistoryInit ==
    /\ BotInit
    /\ probe = NoProbe
    /\ agent_env = NoAgentEnv
    /\ agent = AgentStart

HistoryStartTask(uid) ==
    LET s == Session(uid)
    IN /\ s.state = "WAITING_TASK"
       /\ s.stats.completed_tasks < MaxHistory
       /\ \E msg \in Texts :
            Handled(uid, handle_message(s, client, msg, 0, TRUE, NoReply,
                                        "text"))

HistorySubmit(uid) ==
    /\ Session(uid).state = "SOLVING"
    /\ \E fail \in 0..2 :
        Handled(uid, button_handler(Session(uid), client, "submit_answer",
                                    fail, TRUE))

HistoryFinalAnswer(uid) ==
    LET s == Session(uid)
    IN /\ s.state = "FINAL_ANSWER"
       /\ s.stats.completed_tasks < MaxHistory
       /\ \E msg \in Texts, fail \in FailPoints,
             vreply \in BotVerifyReplies, mreply \in MemeReplies :
            Handled(uid, handle_message(s, client, msg, fail, TRUE, vreply,
                                        mreply))

HistoryNext ==
    \E uid \in Users :
        \/ HistoryStartTask(uid)
        \/ HistorySubmit(uid)
        \/ HistoryFinalAnswer(uid)
        \/ HandlePhoto(uid)

SpecHistory == HistoryInit /\ [][HistoryNext]_vars

\* C19: the history of completed tasks is bounded: it never holds more than
\* the last N entries, older ones being dropped.  Stated for N = 5, the
\* number of entries the statistics view lists.
C19_HistoryBounded ==
    \A u \in DOMAIN user_sessions :
        Len(user_sessions[u].stats.tasks_history) <= HistoryShown

\* ------------------------------------------------------ claims (memes)
\* C20: when meme_enabled is false, completing a task makes no meme-text
\* completion call, sends no meme message and leaves total_memes_earned
\* unchanged.
C20_NoMemeCallWhenDisabled ==
    [][\A u \in Users, msg \in Texts, fail \in FailPoints,
          vreply \in BotVerifyReplies, mreply \in MemeReplies :
            LET s == Session(u)
                c == handle_message_final_calls(s, client, fail, vreply,
                                                mreply)
            IN (/\ s.state = "FINAL_ANSWER"
                /\ ~s.meme_enabled
                /\ TextMessage(u, msg, fail, TRUE, vreply, mreply))
               => /\ ~c.meme_call
                  /\ ~c.meme_message
                  /\ Session(u)'.stats.total_memes_earned =
                        s.stats.total_memes_earned]_vars

\* ------------------------------------------------------------- two users
UsersTwo == {"u1", "u2"}

UsersInit ==
    /\ user_sessions = [u \in {} |-> UserSession]
    /\ client \in BOOLEAN
    /\ score_sum = [u \in UsersTwo |-> 0]
    /\ updates = <<>>
    /\ probe = NoProbe
    /\ agent_env = NoAgentEnv
    /\ agent = AgentStart

\* One update of user uid, handled by a handler that calls get_session.
UsersUpdate(uid) ==
    \/ Start(uid)
    \/ ResetCommand(uid)
    \/ SubmitCommand(uid)
    \/ \E data \in {"toggle_exam", "submit_answer"}, fail \in 0..2 :
            ButtonPress(uid, data, fail)
    \/ /\ Session(uid).state \in {"WAITING_TASK", "SOLVING"}
       /\ Session(uid).state = "WAITING_TASK" =>
                Session(uid).stats.total_tasks < MaxUserTasks
       /\ HandleMessage(uid)

UsersNext == \E uid \in UsersTwo : UsersUpdate(uid)

SpecUsers == UsersInit /\ [][UsersNext]_vars

C22_CompletedAtMostTotal ==
    \A u \in DOMAIN user_sessions :
        user_sessions[u].stats.completed_tasks <=
            user_sessions[u].stats.total_tasks

\* C23: whenever a session is in SOLVING or FINAL_ANSWER, its current_task
\* and task_start_time are both set.
C23_TaskSetWhileSolving ==
    \A u \in DOMAIN user_sessions :
        user_sessions[u].state \in {"SOLVING", "FINAL_ANSWER"} =>
            /\ user_sessions[u].current_task # None
            /\ user_sessions[u].task_start_time # None

\* C24: with the updates of a user handled one at a time, after every
\* handler the conversation is empty, or alternates user and assistant
\* turns, starting with the task-framing user turn and ending with an
\* assistant turn.
C24_ConversationAlternates ==
    \A u \in DOMAIN user_sessions :
        LET conversation == user_sessions[u].conversation
        IN \/ conversation = <<>>
           \/ /\ Alternating(conversation)
              /\ conversation[1].kind = "framing"
              /\ conversation[Len(conversation)].role = "assistant"

\* ---------------------------------------------------- claims (frame effects)
\* C25: /reset, from every state, sets the state to WAITING_TASK, clears
\* current_task, conversation and task_start_time, and leaves the
\* statistics, the difficulty and the exam-mode and meme flags unchanged.
C25_ResetFrame ==
    [][\A u \in Users :
        ResetCommand(u) =>
            LET s == Session(u)
                t == Session(u)'
            IN /\ t.state = "WAITING_TASK"
               /\ t.current_task = None
               /\ t.conversation = <<>>
               /\ t.task_start_time = None
               /\ t.stats = s.stats
               /\ t.difficulty = s.difficulty
               /\ t.exam_mode = s.exam_mode
               /\ t.meme_enabled = s.meme_enabled]_vars

\* C25 witness: a session after /reset of a started task: a task and a hint
\* are counted, both flags were toggled, and nothing of the task is left.
C25_Witness ==
    \E u \in DOMAIN user_sessions :
        LET s == user_sessions[u]
        IN /\ s.state = "WAITING_TASK"
           /\ s.current_task = None
           /\ s.conversation = <<>>
           /\ s.task_start_time = None
           /\ s.stats.total_tasks = 1
           /\ s.stats.completed_tasks = 0
           /\ s.stats.total_hints = 1
           /\ s.exam_mode
           /\ ~s.meme_enabled

\* C26: handling a photo changes at most the pending recognized-task slot
\* temp_task; the slot is set only while the session is in WAITING_TASK or
\* SOLVING and only to the non-empty text recognition returned.
C26_PhotoFrame ==
    [][\A u \in Users, fail \in 0..5, rreply \in RecogReplies :
        LET s == Session(u)
            t == Session(u)'
            recognized_text == recognize_math_from_image(client, rreply)
        IN Handled(u, handle_photo(s, client, fail, rreply)) =>
            /\ t = [s EXCEPT !.temp_task = t.temp_task]
            /\ t.temp_task # s.temp_task =>
                /\ s.state \in {"WAITING_TASK", "SOLVING"}
                /\ recognized_text \notin {None, ""}
                /\ t.temp_task = recognized_text]_vars

\* C26 witness: a photo was recognised while a task was being solved: the
\* slot holds the text and the task goes on.
C26_Witness ==
    \E u \in DOMAIN user_sessions :
        LET s == user_sessions[u]
        IN /\ s.temp_task \in Photos
           /\ s.state = "SOLVING"
           /\ s.current_task \in Texts
           /\ Len(s.conversation) = 2

\* C27: CHECKING and EXAM_MODE are never the state of a session: after every
\* update the state is WAITING_TASK, SOLVING, FINAL_ANSWER or COMPLETED, and
\* pressing toggle_exam changes the exam_mode flag and nothing else.
C27_DeclaredStatesUnused ==
    [][/\ \A u \in DOMAIN user_sessions' :
            user_sessions'[u].state \in
                {"WAITING_TASK", "SOLVING", "FINAL_ANSWER", "COMPLETED"}
       /\ \A u \in Users, fail \in 0..2 :
            ButtonPress(u, "toggle_exam", fail) =>
                Session(u)' = [Session(u) EXCEPT !.exam_mode = ~@]]_vars

\* C27 witness: exam mode was switched on, and a task has been checked with
\* the session left in COMPLETED.
C27_Witness ==
    \E u \in DOMAIN user_sessions :
        /\ user_sessions[u].exam_mode
        /\ user_sessions[u].state = "COMPLETED"
        /\ user_sessions[u].stats.completed_tasks = 1

\* ------------------------------------------- read-only and settings actions
\* Callback data of the read-only screens and of the settings.
ReadOnlyData == {"cat_basic", "sym_x", "back_menu", "show_stats", "settings",
                 "help", "diff_menu"}
SettingsData == {"toggle_exam", "toggle_memes", "difficulty_easy"}

\* Runs of one user who starts tasks, talks, asks to submit, and in between
\* opens the read-only screens and changes the settings.
SettingsNext ==
    \E uid \in Users :
        \/ StatsCommand(uid)
        \/ KeyboardCommand(uid)
        \/ SubmitCommand(uid)
        \/ \E data \in ReadOnlyData \cup SettingsData, fail \in 0..2 :
                ButtonPress(uid, data, fail)
        \/ /\ Session(uid).state \in {"WAITING_TASK", "SOLVING"}
           /\ HandleMessage(uid)

SpecSettings == Init /\ [][SettingsNext]_vars

\* The session after two presses of a toggle button.
pressed_twice(s, cl, data, fail1, fail2) ==
    button_handler(button_handler(s, cl, data, fail1, TRUE).session,
                   cl, data, fail2, TRUE).session

\* C28: the read-only screens (show_stats, /stats, help, settings,
\* /keyboard, the symbol menus) leave the session as it is; toggle_exam,
\* toggle_memes and difficulty_* change only their own field, each toggle
\* flips its flag, and two presses of a toggle restore the session.
C28_ReadOnlyAndSettingsFrame ==
    [][\A u \in Users :
        LET s == Session(u)
            t == Session(u)'
        IN /\ (StatsCommand(u) \/ KeyboardCommand(u)) => t = s
           /\ \A fail \in {0, 2} :
                /\ \A data \in ReadOnlyData :
                        ButtonPress(u, data, fail) => t = s
                /\ ButtonPress(u, "toggle_exam", fail) =>
                        t = [s EXCEPT !.exam_mode = ~@]
                /\ ButtonPress(u, "toggle_memes", fail) =>
                        t = [s EXCEPT !.meme_enabled = ~@]
                /\ ButtonPress(u, "difficulty_easy", fail) =>
                        t = [s EXCEPT !.difficulty = "easy"]
           /\ \A data \in {"toggle_exam", "toggle_memes"},
                 fail1 \in {0, 2}, fail2 \in {0, 2} :
                    pressed_twice(t, client, data, fail1, fail2) = t]_vars

\* C28 witness: during a task every setting was changed, and the task, its
\* conversation and the counters are as the task left them.
C28_Witness ==
    \E u \in DOMAIN user_sessions :
        LET s == user_sessions[u]
        IN /\ s.exam_mode
           /\ ~s.meme_enabled
           /\ s.difficulty = "easy"
           /\ s.state = "SOLVING"
           /\ s.current_task \in Texts
           /\ Len(s.conversation) = 4
           /\ s.stats.total_tasks = 1

\* ------------------------------------------------------ claims (scores)
\* C29: the score verify_solution returns, which handle_message records
\* and averages as it is, lies in 0..100 for every reply of the
\* verification call.
C29_ScoreInRange ==
    (probe.fn = "verify_solution" /\ probe.done) =>
        /\ probe.result.score >= 0
        /\ probe.result.score <= 100

\* ------------------------------------------------ claims (agent report)
\* The report run_stub_plan builds from the first n steps of a plan.
RECURSIVE stub_report(_, _)
stub_report(steps, n) ==
    IF n = 0 THEN NewResults
    ELSE stub_iteration(stub_report(steps, n - 1), steps, n)

run_stub_plan(steps) == stub_report(steps, Len(steps))

\* C30: the report depends on the plan alone: whether the completion
\* credential or the SDK is absent, the sample call succeeded or it failed,
\* main ends without a report exactly when the plan is an empty document,
\* and otherwise has the report run_stub_plan computes from the plan.
C30_ReportIndependentOfApi ==
    agent.pc \notin {"main", "sample", "run_stub_plan", "loop"} =>
        /\ agent.plan_raised <=> agent_env.plan.kind = "empty_yaml"
        /\ ~agent.plan_raised =>
                agent.results = run_stub_plan(agent_env.plan.steps)

\* C30 witness: the sample call failed and the report of a three-step plan
\* is complete.
C30_Witness ==
    /\ RunStubPlanReturned
    /\ agent.sampled = "failed"
    /\ Len(agent_env.plan.steps) = 3
    /\ agent.results = run_stub_plan(agent_env.plan.steps)
    /\ agent.results.passed = 3

====
